---- MODULE Spec2Model ----
(***************************************************************************)
(* A model of SDLCAgent.py: the generate / test / fix workflow of main(),  *)
(* the CodeGenerationAgent operations it calls, and slugify().             *)
(*                                                                         *)
(* Text is modelled as a sequence of one-character strings, so that the    *)
(* character-level work of slugify() is computed rather than assumed.      *)
(***************************************************************************)
EXTENDS Integers, Sequences, FiniteSets, TLC

VARIABLES
    \* ---- the process and main()'s locals ----
    pc,              \* position in the program
    api_key,         \* value of the GOOGLE_API_KEY environment variable
    exit_status,     \* process exit status once the program has ended
    code_filename,   \* main: code_filename  (None is the empty sequence)
    test_filename,   \* main: test_filename
    log_filename,    \* main: log_filename
    generated_code,  \* main: generated_code
    unit_tests,      \* main: unit_tests
    attempt,         \* main: the loop variable of `for attempt in range(...)`
    output,          \* main: output of the last run_tests call
    outcome,         \* how the session ended, as main() logs it
    \* ---- the environment ----
    files,           \* the working directory: file name -> content
    calls,           \* history: the collaborator calls made so far, in order
    entry,           \* "script": run as __main__;  "import": main() called
    \* ---- slugify() applied to arbitrary text ----
    text,            \* the input string
    slug1,           \* slugify(text)
    slug2,           \* slugify(slugify(text))
    spc,             \* how many times slugify has been applied
    \* ---- the clean-up of an Oracle response ----
    response,        \* the response: how it was built, and its text
    cleaned,         \* what the agent method returns for it
    fpc              \* 0: not yet cleaned;  1: cleaned

vars == <<pc, api_key, exit_status, code_filename, test_filename, log_filename,
          generated_code, unit_tests, attempt, output, outcome, files, calls, entry,
          text, slug1, slug2, spc, response, cleaned, fpc>>

sessionVars == <<pc, api_key, exit_status, code_filename, test_filename,
                 log_filename, generated_code, unit_tests, attempt, output,
                 outcome, files, calls, entry>>

slugVars == <<text, slug1, slug2, spc>>

fenceVars == <<response, cleaned, fpc>>

----------------------------------------------------------------------------
(* Characters *)

LowerSeq == <<"a","b","c","d","e","f","g","h","i","j","k","l","m",
              "n","o","p","q","r","s","t","u","v","w","x","y","z">>
UpperSeq == <<"A","B","C","D","E","F","G","H","I","J","K","L","M",
              "N","O","P","Q","R","S","T","U","V","W","X","Y","Z">>
DigitSeq == <<"0","1","2","3","4","5","6","7","8","9">>

Range(s) == {s[i] : i \in DOMAIN s}

LowerLetters == Range(LowerSeq)
UpperLetters == Range(UpperSeq)
Digits       == Range(DigitSeq)
\* the ASCII characters matched by \s
Whitespace   == {" ", "\t", "\n", "\r"}

Min(a, b) == IF a < b THEN a ELSE b

\* str.lower(), one character
ToLower(c) ==
    IF c \in UpperLetters
    THEN LowerSeq[CHOOSE i \in DOMAIN UpperSeq : UpperSeq[i] = c]
    ELSE c

\* text.lower()
Lower(t) == [i \in DOMAIN t |-> ToLower(t[i])]

\* the characters that survive re.sub(r'[^a-z0-9\s]', '', text)
\* (variant: the character class also lets "_" through)
KeptWithUnderscore(c) == c \in LowerLetters \cup Digits \cup Whitespace \cup {"_"}
Kept(c) == c \in LowerLetters \cup Digits \cup Whitespace

\* re.sub(r'[^a-z0-9\s]', '', text)
DropOthers(t) == SelectSeq(t, Kept)

\* re.sub(r'\s+', '_', text): every maximal run of whitespace becomes one "_".
\* The first character of each run is kept (as "_"), the rest of it is dropped.
CollapseSpaces(t) ==
    LET first(i) == t[i] \notin Whitespace \/ i = 1 \/ t[i - 1] \notin Whitespace
        at == SelectSeq([i \in DOMAIN t |-> i], first)
    IN  [k \in DOMAIN at |-> IF t[at[k]] \in Whitespace THEN "_" ELSE t[at[k]]]

\* str.strip('_')
Strip(t) ==
    LET solid == {i \in DOMAIN t : t[i] # "_"}
    IN  IF solid = {} THEN <<>>
        ELSE SubSeq(t, CHOOSE i \in solid : \A j \in solid : i <= j,
                       CHOOSE i \in solid : \A j \in solid : i >= j)

\* the length slugify truncates to
SLUG_LENGTH == 50

\* text[:50]
\* (variant: text[:51])
TruncateOneMore(t) == SubSeq(t, 1, Min(Len(t), SLUG_LENGTH + 1))
Truncate(t) == SubSeq(t, 1, Min(Len(t), SLUG_LENGTH))

\* slugify(text)
slugify(t) == Truncate(Strip(CollapseSpaces(DropOthers(Lower(t)))))

\* main: the fixed requirement
requirement == <<
    "C", "r", "e", "a", "t", "e", " ", "a", " ", "P", "y", "t", "h", "o", 
    "n", " ", "f", "u", "n", "c", "t", "i", "o", "n", " ", "t", "h", "a", 
    "t", " ", "t", "a", "k", "e", "s", " ", "a", " ", "l", "i", "s", "t", 
    " ", "o", "f", " ", "i", "n", "t", "e", "g", "e", "r", "s", " ", "a", 
    "n", "d", " ", "r", "e", "t", "u", "r", "n", "s", " ", "a", " ", "n", 
    "e", "w", " ", "l", "i", "s", "t", " ", "c", "o", "n", "t", "a", "i", 
    "n", "i", "n", "g", " ", "o", "n", "l", "y", " ", "t", "h", "e", " ", 
    "e", "v", "e", "n", " ", "n", "u", "m", "b", "e", "r", "s", "." >>

----------------------------------------------------------------------------
(* Names and values *)

\* None, and every other falsy string, is the empty sequence
None == <<>>

\* main: MAX_ATTEMPTS = 3
MAX_ATTEMPTS == 3

\* the values GOOGLE_API_KEY may have: unset, set to "", set to a key
KeyValues == {"<unset>", "", "key"}
\* `not os.getenv("GOOGLE_API_KEY")`
\* (variant: only an unset variable counts as missing, an empty one does not)
KeyMissingOnlyUnset(k) == k = "<unset>"
KeyMissing(k) == k \in {"<unset>", ""}

\* datetime.now().strftime("%Y%m%d_%H%M%S"), two sample instants
Timestamps == { <<"2","0","2","5","0","1","0","1","_","0","0","0","0","0","0">>,
                <<"2","0","2","5","0","1","0","1","_","0","0","0","0","0","1">> }

\* main: base_filename, code_filename, test_filename, log_filename
BaseName == slugify(requirement)
CodeName == BaseName \o <<".","p","y">>
TestName == <<"t","e","s","t","_">> \o BaseName \o <<".","p","y">>
LogName(ts) == BaseName \o <<"_">> \o ts \o <<".","l","o","g">>

FileNames == {CodeName, TestName} \cup {LogName(ts) : ts \in Timestamps}

\* content of a file that does not exist
Absent == "<absent>"
\* os.path.exists(f), guarded by `f and` as in the cleanup loop
Exists(fs, f) == f \in DOMAIN fs /\ fs[f] # Absent

\* what the Oracle may return as code and as tests (already unfenced)
CodeTexts == {"code_v1", "code_v2"}
TestTexts == {"tests_a", "tests_b"}

\* run_tests: the three messages for a Runner that could not run
NOT_FOUND  == "Error: Test file not found"
NO_PYTEST  == "Error: 'pytest' not found or could not be run"
UNEXPECTED == "An unexpected error occurred while running tests"
Unavailable == {NOT_FOUND, NO_PYTEST, UNEXPECTED}

\* subprocess.run of pytest: return code and captured stdout + stderr
PytestResults == { [rc |-> 0, out |-> "1 passed"],
                   [rc |-> 1, out |-> "1 failed"],
                   [rc |-> 5, out |-> "no tests ran"] }

\* one entry of the history
Event(op, res, at, code, tests, diag) ==
    [op |-> op, res |-> res, at |-> at, code |-> code, tests |-> tests,
     diag |-> diag]

\* an entry for a call that is handed a requirement text
WithRequirement(e, req) ==
    [op |-> e.op, res |-> e.res, at |-> e.at, code |-> e.code,
     tests |-> e.tests, diag |-> e.diag, req |-> req]

OracleOps == {"generate_code", "generate_unit_tests", "fix_code"}

\* the number of entries of the history that satisfy P
Count(P(_)) == Cardinality({i \in DOMAIN calls : P(calls[i])})

IsRun(e)     == e.op = "run_tests"
IsFix(e)     == e.op = "fix_code"
IsCleanup(e) == e.op = "cleanup"
IsWrite(e)   == e.op \in {"write_code", "write_tests"}

\* no response at hand
NoResponse == [kind |-> "none", tag |-> <<>>, src |-> <<>>, text |-> <<>>]

----------------------------------------------------------------------------
(* The program *)

Init ==
    /\ entry \in {"script", "import"}
    /\ pc = IF entry = "script" THEN "__main__" ELSE "main"
    /\ api_key \in KeyValues
    /\ exit_status = -1
    /\ code_filename = None
    /\ test_filename = None
    /\ log_filename = None
    /\ generated_code = ""
    /\ unit_tests = ""
    /\ attempt = 0
    /\ output = ""
    /\ outcome = "none"
    \* files left in the working directory by earlier runs may still be there
    /\ files \in { [n \in FileNames |->
                      IF n = CodeName THEN c ELSE IF n = TestName THEN t
                      ELSE Absent] : c \in {Absent, "old"}, t \in {Absent, "old"} }
    /\ calls = <<>>
    /\ text = <<>> /\ slug1 = <<>> /\ slug2 = <<>> /\ spc = 0
    /\ response = NoResponse /\ cleaned = <<>> /\ fpc = 0

\* __main__: the pre-flight check of the API key
Preflight ==
    /\ pc = "__main__"
    /\ \/ /\ KeyMissing(api_key)
          /\ pc' = "done"
          /\ exit_status' = 1
          /\ outcome' = "ConfigurationError"
       \/ /\ ~KeyMissing(api_key)
          /\ pc' = "main"
          /\ UNCHANGED <<exit_status, outcome>>
    /\ UNCHANGED <<api_key, code_filename, test_filename, log_filename,
                   generated_code, unit_tests, attempt, output, files, calls,
                   entry, slugVars,
                   fenceVars>>

\* main: agent = CodeGenerationAgent(); __init__ raises ValueError without a key
Construct ==
    /\ pc = "main"
    /\ \/ /\ KeyMissing(api_key)
          /\ pc' = "finally"
          /\ outcome' = "ConfigurationError"
       \/ /\ ~KeyMissing(api_key)
          /\ pc' = "setup"
          /\ UNCHANGED outcome
    /\ UNCHANGED <<api_key, exit_status, code_filename, test_filename,
                   log_filename, generated_code, unit_tests, attempt, output,
                   files, calls, entry, slugVars,
                   fenceVars>>

\* main: the log file is created and the two artifact names are fixed
Setup ==
    /\ pc = "setup"
    /\ \E ts \in Timestamps :
          /\ log_filename' = LogName(ts)
          /\ files' = [files EXCEPT ![LogName(ts)] = "log"]
    /\ code_filename' = CodeName
    /\ test_filename' = TestName
    /\ pc' = "generate_code"
    /\ UNCHANGED <<api_key, exit_status, generated_code, unit_tests, attempt,
                   output, outcome, calls, entry, slugVars,
                   fenceVars>>

\* main: `except Exception` after an Oracle call raised its RuntimeError
\* (variant: the error is swallowed and the workflow goes on to the tests)
CarryOn ==
    /\ pc' = "run_tests"
    /\ outcome' = outcome
Fatal ==
    /\ pc' = "finally"
    /\ outcome' = "FatalError"

\* main: --- 1. Generating Initial Code ---   (agent.generate_code)
GenerateCode ==
    /\ pc = "generate_code"
    /\ \/ \E c \in CodeTexts :
             /\ generated_code' = c
             /\ calls' = Append(calls,
                   WithRequirement(Event("generate_code", "ok", 0, c, "", ""),
                                   requirement))
             /\ pc' = "write_code"
             /\ UNCHANGED outcome
       \/ /\ calls' = Append(calls,
                   WithRequirement(Event("generate_code", "raise", 0, "", "", ""),
                                   requirement))
          /\ Fatal
          /\ UNCHANGED generated_code
    /\ UNCHANGED <<api_key, exit_status, code_filename, test_filename,
                   log_filename, unit_tests, attempt, output, files, entry,
                   slugVars,
                   fenceVars>>

\* main: with open(code_filename, "w") as f: f.write(generated_code)
WriteCode ==
    /\ pc = "write_code"
    /\ files' = [files EXCEPT ![code_filename] = generated_code]
    /\ calls' = Append(calls, Event("write_code", "ok", 0, generated_code, "", ""))
    /\ pc' = "generate_tests"
    /\ UNCHANGED <<api_key, exit_status, code_filename, test_filename,
                   log_filename, generated_code, unit_tests, attempt, output,
                   outcome, entry, slugVars,
                   fenceVars>>

\* main: --- 2. Generating Unit Tests ---   (agent.generate_unit_tests)
GenerateTests ==
    /\ pc = "generate_tests"
    /\ \/ \E t \in TestTexts :
             /\ unit_tests' = t
             /\ calls' = Append(calls, Event("generate_unit_tests", "ok", 0,
                                             generated_code, t, ""))
             /\ pc' = "write_tests"
             /\ UNCHANGED outcome
       \/ /\ calls' = Append(calls, Event("generate_unit_tests", "raise", 0,
                                          generated_code, "", ""))
          /\ Fatal
          /\ UNCHANGED unit_tests
    /\ UNCHANGED <<api_key, exit_status, code_filename, test_filename,
                   log_filename, generated_code, attempt, output, files, entry,
                   slugVars,
                   fenceVars>>

\* main: with open(test_filename, "w") as f: f.write(unit_tests)
\* (variant: the tests are written under the name of the code file)
WriteTestsOverCode ==
    /\ pc = "write_tests"
    /\ files' = [files EXCEPT ![code_filename] = unit_tests]
    /\ calls' = Append(calls, Event("write_tests", "ok", 0, "", unit_tests, ""))
    /\ pc' = "run_tests"
    /\ UNCHANGED <<api_key, exit_status, code_filename, test_filename,
                   log_filename, generated_code, unit_tests, attempt, output,
                   outcome, entry, slugVars,
                   fenceVars>>
WriteTests ==
    /\ pc = "write_tests"
    /\ files' = [files EXCEPT ![test_filename] = unit_tests]
    /\ calls' = Append(calls, Event("write_tests", "ok", 0, "", unit_tests, ""))
    /\ pc' = "run_tests"
    /\ UNCHANGED <<api_key, exit_status, code_filename, test_filename,
                   log_filename, generated_code, unit_tests, attempt, output,
                   outcome, entry, slugVars,
                   fenceVars>>

\* main: `for attempt in range(MAX_ATTEMPTS)`, is another value left after a
\* (variant: a range one value too long)
InRangeOneMore(a) == a <= MAX_ATTEMPTS
InRange(a) == a < MAX_ATTEMPTS

\* main: the for statement takes its next value, or the loop ends
\* (variant: a loop that generates the tests anew for each value)
ForNextFromTests ==
    IF InRange(attempt + 1)
    THEN /\ attempt' = attempt + 1
         /\ pc' = "generate_tests"
    ELSE /\ attempt' = attempt
         /\ pc' = "finally"
\* (variant: a loop whose variable does not advance)
ForSame ==
    /\ attempt' = attempt
    /\ pc' = "run_tests"
ForNext ==
    IF InRange(attempt + 1)
    THEN /\ attempt' = attempt + 1
         /\ pc' = "run_tests"
    ELSE /\ attempt' = attempt
         /\ pc' = "finally"

\* main: `break`
\* (variant: `continue` where the code has `break`)
Continue == ForNext
Break ==
    /\ attempt' = attempt
    /\ pc' = "finally"

\* main: `if attempt < MAX_ATTEMPTS - 1`
\* (variant: `if attempt < MAX_ATTEMPTS`)
MoreAttemptsAlways(a) == a < MAX_ATTEMPTS
MoreAttempts(a) == a < MAX_ATTEMPTS - 1

\* run_tests: `success = result.returncode == 0`
Passed(rc) == rc = 0

\* main: what the loop body does with (success, output) from run_tests;
\* fs is the working directory as the call left it
Handle(success, out, fs) ==
    /\ output' = out
    /\ files' = fs
    /\ calls' = Append(calls,
                  Event("run_tests",
                        IF success THEN "pass"
                        ELSE IF out \in Unavailable THEN "unavailable" ELSE "fail",
                        attempt + 1, generated_code, unit_tests, out))
    /\ IF success
       THEN /\ outcome' = "Success"
            /\ Break
       ELSE IF MoreAttempts(attempt)
            THEN /\ pc' = "fix_code"
                 /\ UNCHANGED <<attempt, outcome>>
            ELSE /\ outcome' = "ExhaustedAttempts"
                 /\ ForNext

\* run_tests: the Runner could not run; `return False, <message>`
\* (variant: the condition is raised to main instead of returned)
RunnerRaises(msg) ==
    /\ output' = output
    /\ files' = files
    /\ calls' = Append(calls, Event("run_tests", "unavailable", attempt + 1,
                                    generated_code, unit_tests, msg))
    /\ attempt' = attempt
    /\ Fatal
RunnerUnavailable(msg) == Handle(FALSE, msg, files)

\* main: --- 3. Running Tests ---   (agent.run_tests and the branch on it)
RunTests ==
    /\ pc = "run_tests"
    /\ \/ /\ ~Exists(files, test_filename)
          /\ RunnerUnavailable(NOT_FOUND)
       \/ /\ Exists(files, test_filename)
          \* pytest runs the generated tests, which may delete their own file
          /\ \E r \in PytestResults, gone \in BOOLEAN :
                Handle(Passed(r.rc), r.out,
                       IF gone THEN [files EXCEPT ![test_filename] = Absent]
                       ELSE files)
       \/ /\ Exists(files, test_filename)
          /\ RunnerUnavailable(NO_PYTEST)
       \/ /\ Exists(files, test_filename)
          /\ RunnerUnavailable(UNEXPECTED)
    /\ UNCHANGED <<api_key, exit_status, code_filename, test_filename,
                   log_filename, generated_code, unit_tests, entry, slugVars,
                   fenceVars>>

\* main: --- 4. Attempting to Fix the Code ---   (agent.fix_code)
FixCode ==
    /\ pc = "fix_code"
    /\ \/ \E c \in CodeTexts :
             /\ generated_code' = c
             /\ calls' = Append(calls,
                   WithRequirement(Event("fix_code", "ok", attempt + 1,
                                         generated_code, unit_tests, output),
                                   requirement))
             /\ pc' = "rewrite_code"
             /\ UNCHANGED outcome
       \/ /\ calls' = Append(calls,
                   WithRequirement(Event("fix_code", "raise", attempt + 1,
                                         generated_code, unit_tests, output),
                                   requirement))
          /\ Fatal
          /\ UNCHANGED generated_code
    /\ UNCHANGED <<api_key, exit_status, code_filename, test_filename,
                   log_filename, unit_tests, attempt, output, files, entry,
                   slugVars,
                   fenceVars>>

\* main: the fixed code is re-saved and the loop goes round
\* (variant: the loop goes round without saving the fixed code)
RewriteSkipped ==
    /\ pc = "rewrite_code"
    /\ files' = files
    /\ calls' = calls
    /\ ForNext
    /\ UNCHANGED <<api_key, exit_status, code_filename, test_filename,
                   log_filename, generated_code, unit_tests, output, outcome,
                   entry, slugVars,
                   fenceVars>>
RewriteCode ==
    /\ pc = "rewrite_code"
    /\ files' = [files EXCEPT ![code_filename] = generated_code]
    /\ calls' = Append(calls, Event("write_code", "ok", attempt + 1,
                                    generated_code, "", ""))
    /\ ForNext
    /\ UNCHANGED <<api_key, exit_status, code_filename, test_filename,
                   log_filename, generated_code, unit_tests, output, outcome,
                   entry, slugVars,
                   fenceVars>>

\* main: `if f and os.path.exists(f): os.remove(f)`
\* (variant: the file is left in place)
RemoveNothing(fs, f) == fs
RemoveIfThere(fs, f) ==
    IF f # None /\ Exists(fs, f) THEN [fs EXCEPT ![f] = Absent] ELSE fs

\* main: an exception leaves main; run as a script the interpreter prints the
\* traceback and the process ends with status 1
Propagate ==
    /\ pc' = "raised"
    /\ exit_status' = IF entry = "script" THEN 1 ELSE exit_status

\* main: the finally block, then the end of main and of the process.
\* os.remove may raise OSError on a file that exists (no permission, a
\* directory, a file held open); nothing in the finally block catches it, so
\* the loop over the two names stops there and the exception leaves main.
Cleanup ==
    /\ pc = "finally"
    /\ \/ /\ files' = RemoveIfThere(RemoveIfThere(files, code_filename),
                                    test_filename)
          /\ calls' = Append(calls, Event("cleanup", "ok", 0, "", "", ""))
          /\ pc' = "done"
          /\ exit_status' = IF entry = "script" THEN 0 ELSE exit_status
       \/ /\ Exists(files, code_filename)
          /\ files' = files
          /\ calls' = Append(calls, Event("cleanup", "raise", 0, "", "", ""))
          /\ Propagate
       \/ /\ Exists(files, test_filename)
          /\ files' = RemoveIfThere(files, code_filename)
          /\ calls' = Append(calls, Event("cleanup", "raise", 0, "", "", ""))
          /\ Propagate
    /\ UNCHANGED <<api_key, code_filename, test_filename, log_filename,
                   generated_code, unit_tests, attempt, output, outcome, entry,
                   slugVars,
                   fenceVars>>

Next ==
    \/ Preflight
    \/ Construct
    \/ Setup
    \/ GenerateCode
    \/ WriteCode
    \/ GenerateTests
    \/ WriteTests
    \/ RunTests
    \/ FixCode
    \/ RewriteCode
    \/ Cleanup

Spec == Init /\ [][Next]_vars

\* every call returns and the interpreter keeps executing the next statement
FairSpec == Spec /\ WF_vars(Next)

----------------------------------------------------------------------------
(* slugify() on arbitrary text *)

\* the longest free part of an input
MaxLen == 3

\* one character of each kind slugify tells apart
SlugAlphabet == {"a", "B", "7", " ", "_", "-"}

\* a run of n letters
Pad(n) == [i \in 1..n |-> "x"]
PadLens == {0, SLUG_LENGTH - 2, SLUG_LENGTH - 1, SLUG_LENGTH}

FreeParts == UNION {[1..k -> SlugAlphabet] : k \in 0..MaxLen}

\* the inputs: a free part after or before a run of letters that brings the
\* text to the length where slugify truncates
SlugInputs ==
    {Pad(n) \o s : n \in PadLens, s \in FreeParts}
        \cup {s \o Pad(n) : n \in PadLens, s \in FreeParts}

SlugInit ==
    /\ text \in SlugInputs
    /\ slug1 = <<>>
    /\ slug2 = <<>>
    /\ spc = 0
    /\ entry = "import"
    /\ pc = "slugify"
    /\ api_key = "key"
    /\ exit_status = -1
    /\ code_filename = None
    /\ test_filename = None
    /\ log_filename = None
    /\ generated_code = ""
    /\ unit_tests = ""
    /\ attempt = 0
    /\ output = ""
    /\ outcome = "none"
    /\ files = [n \in FileNames |-> Absent]
    /\ calls = <<>>
    /\ response = NoResponse /\ cleaned = <<>> /\ fpc = 0

\* slugify(text)
SlugOnce ==
    /\ spc = 0
    /\ slug1' = slugify(text)
    /\ spc' = 1
    /\ UNCHANGED <<text, slug2, sessionVars, fenceVars>>

\* slugify(slugify(text))
SlugTwice ==
    /\ spc = 1
    /\ slug2' = slugify(slug1)
    /\ spc' = 2
    /\ UNCHANGED <<text, slug1, sessionVars, fenceVars>>

SlugNext == SlugOnce \/ SlugTwice

SlugSpec == SlugInit /\ [][SlugNext]_vars

----------------------------------------------------------------------------
(* The clean-up of an Oracle response: the same lines in generate_code,
   generate_unit_tests and fix_code *)

\* the grave accent, a character no string of this module can hold
Backtick == "grave"

\* the fence marker, three grave accents, and the language every call of
\* main() uses, language="python"
FENCE  == <<Backtick, Backtick, Backtick>>
PYTHON == <<"p", "y", "t", "h", "o", "n">>

\* str.strip()
Trim(t) ==
    LET solid == {i \in DOMAIN t : t[i] \notin Whitespace}
    IN  IF solid = {} THEN <<>>
        ELSE SubSeq(t, CHOOSE i \in solid : \A j \in solid : i <= j,
                       CHOOSE i \in solid : \A j \in solid : i >= j)

\* str.startswith(prefix)
StartsWith(t, prefix) ==
    Len(t) >= Len(prefix) /\ SubSeq(t, 1, Len(prefix)) = prefix

\* t[n:-3]
Slice(t, n) ==
    IF n + 1 > Len(t) - Len(FENCE) THEN <<>>
    ELSE SubSeq(t, n + 1, Len(t) - Len(FENCE))

\* response.text.strip(), then the two startswith branches
StripFences(t) ==
    LET g == Trim(t)
    IN  IF StartsWith(g, FENCE \o PYTHON)
        THEN Trim(Slice(g, Len(FENCE \o PYTHON \o <<"\n">>)))
        ELSE IF StartsWith(g, FENCE)
             THEN Trim(Slice(g, Len(FENCE)))
             ELSE g

\* the longest source text of a response
MaxSrc == 3

SrcAlphabet == {"x", " ", "\n"}
Sources == UNION {[1..k -> SrcAlphabet] : k \in 0..MaxSrc}

\* the language tags an opening fence line may carry: none, python, py, Python
Tags == {<<>>, PYTHON, <<"p", "y">>, <<"P", "y", "t", "h", "o", "n">>}

\* white space around the whole response
Margins == {<<>>, <<"\n">>}

\* source text between an opening fence line and a closing fence
Fenced(lead, tag, src, trail) ==
    [kind |-> "fenced", tag |-> tag, src |-> src,
     text |-> lead \o FENCE \o tag \o <<"\n">> \o src \o <<"\n">> \o FENCE \o trail]

\* source text as it is
Plain(lead, src, trail) ==
    [kind |-> "plain", tag |-> <<>>, src |-> src, text |-> lead \o src \o trail]

Responses ==
    {Fenced(l, g, s, t) : l \in Margins, g \in Tags, s \in Sources, t \in Margins}
        \cup {Plain(l, s, t) : l \in Margins, s \in Sources, t \in Margins}

FenceInit ==
    /\ response \in Responses
    /\ cleaned = <<>>
    /\ fpc = 0
    /\ text = <<>> /\ slug1 = <<>> /\ slug2 = <<>> /\ spc = 0
    /\ entry = "import"
    /\ pc = "oracle"
    /\ api_key = "key"
    /\ exit_status = -1
    /\ code_filename = None
    /\ test_filename = None
    /\ log_filename = None
    /\ generated_code = ""
    /\ unit_tests = ""
    /\ attempt = 0
    /\ output = ""
    /\ outcome = "none"
    /\ files = [n \in FileNames |-> Absent]
    /\ calls = <<>>

\* generate_code / generate_unit_tests / fix_code: from response.text to the
\* string returned
CleanResponse ==
    /\ fpc = 0
    /\ cleaned' = StripFences(response.text)
    /\ fpc' = 1
    /\ UNCHANGED <<response, slugVars, sessionVars>>

FenceNext == CleanResponse

FenceSpec == FenceInit /\ [][FenceNext]_vars

----------------------------------------------------------------------------
(* Properties of the session *)

\* main has ended: it returned, or an exception left it
Finished == pc \in {"done", "raised"}

Ended == pc = "finally" \/ Finished

IsFailedRun(e) == e.op = "run_tests" /\ e.res # "pass"
IsRaise(e)     == e.op \in OracleOps /\ e.res = "raise"

\* the entries of the history after position i
After(i) == {j \in DOMAIN calls : j > i}

\* the number of run_tests calls among the first i entries of the history
RunsUpTo(i) == Cardinality({j \in 1..i : IsRun(calls[j])})

\* C1: a session never makes more than MAX_ATTEMPTS run_tests calls, whatever
\* the Oracle and the Runner return.
C1_AtMostMaxRuns == Count(IsRun) <= MAX_ATTEMPTS

C1_Witness == pc = "done" /\ Count(IsRun) = MAX_ATTEMPTS

\* C2: once run_tests has reported success on attempt k, the session is over:
\* no run_tests and no Oracle call follows that pass, the outcome is Success,
\* and k attempts were used (the loop variable stays at k - 1 and k run_tests
\* calls were made in all).
C2_PassEndsSession ==
    \A i \in DOMAIN calls :
        (IsRun(calls[i]) /\ calls[i].res = "pass") =>
            /\ \A j \in After(i) : calls[j].op = "cleanup"
            /\ Ended
            /\ outcome = "Success"
            /\ attempt + 1 = calls[i].at
            /\ Count(IsRun) = calls[i].at

C2_Witness ==
    /\ pc = "done"
    /\ outcome = "Success"
    /\ \E i \in DOMAIN calls :
          IsRun(calls[i]) /\ calls[i].res = "pass" /\ calls[i].at = 2

\* C3: when run_tests has failed MAX_ATTEMPTS times, the session has ended as
\* ExhaustedAttempts after exactly MAX_ATTEMPTS run_tests calls and exactly
\* MAX_ATTEMPTS - 1 fix_code calls, and nothing but cleanup follows the last
\* failed run; no fix_code call is ever made for attempt MAX_ATTEMPTS.
C3_ExhaustedAfterMaxFailures ==
    /\ \A i \in DOMAIN calls : IsFix(calls[i]) => calls[i].at < MAX_ATTEMPTS
    /\ Count(IsFailedRun) = MAX_ATTEMPTS =>
          /\ Ended
          /\ outcome = "ExhaustedAttempts"
          /\ Count(IsRun) = MAX_ATTEMPTS
          /\ Count(IsFix) = MAX_ATTEMPTS - 1
          /\ Count(IsRaise) = 0
          /\ \A i \in DOMAIN calls :
                (IsRun(calls[i]) /\ calls[i].at = MAX_ATTEMPTS) =>
                    \A j \in After(i) : calls[j].op = "cleanup"

C3_Witness ==
    /\ pc = "done"
    /\ Count(IsFailedRun) = MAX_ATTEMPTS
    /\ Count(IsFix) = MAX_ATTEMPTS - 1
    /\ outcome = "ExhaustedAttempts"

\* C4: the finally block runs exactly once per session, and when main returns
\* from a session (Success, ExhaustedAttempts or FatalError) neither the code
\* file nor the test file exists; before the finally block it has not run.
C4_CleanupOnceAndComplete ==
    /\ Count(IsCleanup) <= 1
    /\ ~Finished => Count(IsCleanup) = 0
    /\ (pc = "done" /\ outcome \in {"Success", "ExhaustedAttempts", "FatalError"}) =>
          /\ Count(IsCleanup) = 1
          /\ calls[Len(calls)].op = "cleanup"
          /\ ~Exists(files, CodeName)
          /\ ~Exists(files, TestName)

C4_Witness ==
    /\ pc = "done"
    /\ outcome = "FatalError"
    /\ Count(IsWrite) >= 3
    /\ Count(IsCleanup) = 1
    /\ ~Exists(files, CodeName)
    /\ ~Exists(files, TestName)

\* C5: when an Oracle call (generate_code, generate_unit_tests, fix_code)
\* raises, the session ends at once as FatalError: nothing but cleanup follows
\* the failing call; and when it is generate_code or generate_unit_tests that
\* raises, run_tests was never called.
C5_OracleFailureIsFatal ==
    \A i \in DOMAIN calls :
        IsRaise(calls[i]) =>
            /\ Ended
            /\ outcome = "FatalError"
            /\ \A j \in After(i) : calls[j].op = "cleanup"
            /\ calls[i].op \in {"generate_code", "generate_unit_tests"} =>
                   Count(IsRun) = 0

C5_Witness ==
    /\ pc = "done"
    /\ outcome = "FatalError"
    /\ \E i \in DOMAIN calls : IsRaise(calls[i]) /\ calls[i].op = "generate_unit_tests"
    /\ Count(IsRun) = 0
    /\ ~Exists(files, CodeName)

\* C6: a Runner that could not run (test file missing, pytest not started, any
\* other exception) is recorded as a failed attempt whose diagnostic is the
\* message: below MAX_ATTEMPTS the next call is fix_code with that very
\* diagnostic, at MAX_ATTEMPTS the session ends as ExhaustedAttempts; it never
\* makes the outcome FatalError, which only an Oracle failure does.
C6_UnavailableIsAFailedAttempt ==
    /\ outcome = "FatalError" => Count(IsRaise) > 0
    /\ \A i \in DOMAIN calls :
          (IsRun(calls[i]) /\ calls[i].res = "unavailable") =>
              /\ calls[i].diag \in Unavailable
              /\ IF calls[i].at < MAX_ATTEMPTS
                 THEN IF i = Len(calls)
                      THEN pc = "fix_code" /\ output = calls[i].diag
                                           /\ outcome = "none"
                      ELSE /\ calls[i + 1].op = "fix_code"
                           /\ calls[i + 1].diag = calls[i].diag
                           /\ calls[i + 1].at = calls[i].at
                 ELSE /\ Ended
                      /\ outcome = "ExhaustedAttempts"
                      /\ output = calls[i].diag
                      /\ \A j \in After(i) : calls[j].op = "cleanup"

C6_Witness ==
    /\ pc = "done"
    /\ outcome = "ExhaustedAttempts"
    /\ \E i, j \in DOMAIN calls :
          /\ calls[i].op = "run_tests" /\ calls[i].diag = NO_PYTEST
          /\ calls[i].at = 1
          /\ calls[i + 1].op = "fix_code" /\ calls[i + 1].diag = NO_PYTEST
          /\ calls[j].op = "run_tests" /\ calls[j].diag = NOT_FOUND
          /\ calls[j].at = MAX_ATTEMPTS

\* The safety half of C7: a session that has ended ended as Success,
\* ExhaustedAttempts or FatalError; the k-th run_tests call is attempt k, and
\* the attempt index never exceeds MAX_ATTEMPTS.
C7_AttemptIndex ==
    /\ attempt + 1 <= MAX_ATTEMPTS
    /\ \A i \in DOMAIN calls :
          IsRun(calls[i]) => calls[i].at = RunsUpTo(i) /\ calls[i].at <= MAX_ATTEMPTS
    /\ (Finished /\ log_filename # None) =>
          outcome \in {"Success", "ExhaustedAttempts", "FatalError"}

\* C7 (the whole claim): under fair scheduling the program reaches its end,
\* and the attempt index behaves as stated above in every state on the way.
C7_Terminates == <>Finished /\ []C7_AttemptIndex

C7_Witness ==
    /\ pc = "done"
    /\ outcome = "ExhaustedAttempts"
    /\ attempt + 1 = MAX_ATTEMPTS
    /\ RunsUpTo(Len(calls)) = MAX_ATTEMPTS

\* C10: without the credential (GOOGLE_API_KEY unset or empty) no session
\* starts: no Oracle call, no run_tests call and no write is ever made, no
\* file name is chosen, and no file of the working directory is created or
\* changed.
CredentialAbsent == api_key \in {"<unset>", ""}

C10_NoSessionWithoutKey ==
    CredentialAbsent =>
        /\ \A i \in DOMAIN calls : calls[i].op = "cleanup"
        /\ code_filename = None /\ test_filename = None /\ log_filename = None
        /\ \A n \in FileNames : files[n] \in {Absent, "old"}
        /\ outcome \in {"none", "ConfigurationError"}
        /\ pc \in {"__main__", "main", "finally", "done"}

C10_Witness ==
    /\ pc = "done"
    /\ api_key = ""
    /\ exit_status = 1
    /\ outcome = "ConfigurationError"
    /\ calls = <<>>

\* C11: run as a script, the process ends with exit status 1 when the
\* credential is absent and with 0 otherwise, whatever the outcome of the
\* session.
C11_ExitStatus ==
    (Finished /\ entry = "script") =>
        exit_status = IF CredentialAbsent THEN 1 ELSE 0

\* The exit status is as C11 says in every run in which main returns: the only
\* departures are the runs in which os.remove raises in the finally block.
C11_ExitStatusWhenMainReturns ==
    /\ (pc = "done" /\ entry = "script") =>
          exit_status = IF CredentialAbsent THEN 1 ELSE 0
    /\ pc = "raised" => calls[Len(calls)] = Event("cleanup", "raise", 0, "", "", "")

\* C12: a failure of the cleanup does not mask the outcome of the session: once
\* the finally block has run, main has returned (no exception has left it) and,
\* run as a script, the exit status is 0; this also when a removal failed.
C12_NoErrorEscapesCleanup ==
    \A i \in DOMAIN calls :
        IsCleanup(calls[i]) =>
            /\ pc = "done"
            /\ entry = "script" => exit_status = 0

\* The half of C12 that the code keeps: a name whose file is already gone is
\* skipped, so with both files gone the finally block ends with main returning.
C12_AbsentArtifactIsNoError ==
    [][(pc = "finally" /\ ~Exists(files, code_filename)
                       /\ ~Exists(files, test_filename)) => pc' = "done"]_vars

IsWriteCode(e)  == e.op = "write_code"
IsWriteTests(e) == e.op = "write_tests"
IsFixed(e)      == e.op = "fix_code" /\ e.res = "ok"

\* the code every Runner invocation had under test is the code of the latest
\* write of the code file before it
RunsWhatWasWritten ==
    \A j \in DOMAIN calls :
        IsRun(calls[j]) =>
            \E i \in 1..(j - 1) :
                /\ IsWriteCode(calls[i])
                /\ calls[i].code = calls[j].code
                /\ \A k \in (i + 1)..(j - 1) : ~IsWriteCode(calls[k])

\* a successful repair is followed at once by the overwrite of the code file
FixThenWrite ==
    \A i \in DOMAIN calls :
        (IsFixed(calls[i]) /\ i < Len(calls)) => IsWriteCode(calls[i + 1])

C15_RepairInputs ==
    \A i \in DOMAIN calls :
        IsFix(calls[i]) =>
            /\ i > 1
            /\ IsFailedRun(calls[i - 1])
            /\ calls[i - 1].at = calls[i].at
            /\ calls[i].at < MAX_ATTEMPTS
            /\ calls[i].req = requirement
            /\ calls[i].req = calls[1].req
            /\ calls[i].code = calls[i - 1].code
            /\ calls[i].tests = calls[i - 1].tests
            /\ calls[i].diag = calls[i - 1].diag

\* the repair after failed Attempt 2, whose output differs from that of
\* Attempt 1, on code that the first repair changed
C15_Witness ==
    \E i, j \in DOMAIN calls :
        /\ IsFix(calls[i]) /\ calls[i].at = 2
        /\ IsRun(calls[j]) /\ calls[j].at = 1
        /\ calls[j].diag # calls[i].diag
        /\ calls[j].code # calls[i].code

\* the session is between the fixing of the names and the end of the workflow
Running ==
    pc \in {"generate_code", "write_code", "generate_tests", "write_tests",
            "run_tests", "fix_code", "rewrite_code"}

\* the two names are those derived from the slug, and are set while running
StableNames ==
    /\ code_filename \in {None, CodeName}
    /\ test_filename \in {None, TestName}
    /\ (Running \/ Ended) /\ log_filename # None =>
          code_filename = CodeName /\ test_filename = TestName

\* a step never changes a name once it is set, and gives content to a file
\* only under one of the session's names: code under the code name, tests
\* under the test name, the log under the log name
WritesOnTarget ==
    /\ code_filename # None => code_filename' = code_filename
    /\ test_filename # None => test_filename' = test_filename
    /\ \A f \in FileNames :
          (files'[f] # files[f] /\ files'[f] # Absent) =>
              \/ f = code_filename /\ files'[f] = generated_code'
                                   /\ generated_code' \in CodeTexts
              \/ f = test_filename /\ files'[f] = unit_tests'
                                   /\ unit_tests' \in TestTexts
              \/ f = log_filename' /\ pc = "setup"

C17_LogIsTheOnlyResidue ==
    /\ log_filename # None => Exists(files, log_filename)
    /\ (pc = "done" /\ log_filename # None) =>
          /\ ~Exists(files, CodeName)
          /\ ~Exists(files, TestName)
          /\ \A f \in FileNames : Exists(files, f) => f = log_filename

\* main has returned from a session that wrote both files and ran the tests
C17_Witness ==
    /\ pc = "done"
    /\ log_filename # None
    /\ Count(IsWriteCode) >= 1 /\ Count(IsWriteTests) >= 1 /\ Count(IsRun) >= 1
    /\ Count(IsCleanup) = 1
    /\ Exists(files, log_filename)
    /\ ~Exists(files, CodeName) /\ ~Exists(files, TestName)

IsGenerateTests(e) == e.op = "generate_unit_tests"

\* a repair step, the call of fix_code or the write that follows it, leaves
\* the test code alone and changes no file but the code file
RepairFrame ==
    pc \in {"fix_code", "rewrite_code"} =>
        /\ unit_tests' = unit_tests
        /\ \A f \in FileNames \ {code_filename} : files'[f] = files[f]

\* C18: generate_unit_tests is called at most once, on the initial code; a
\* repair step leaves the test code and the test file unchanged; every run
\* and every repair has the tests that this one call returned, and the test
\* file never holds any other tests once it is written.
C18_TestsFrozen ==
    /\ [](/\ Count(IsGenerateTests) <= 1
          /\ \A i \in DOMAIN calls :
                IsGenerateTests(calls[i]) =>
                    /\ calls[1].op = "generate_code"
                    /\ calls[i].code = calls[1].code
                    /\ \A j \in DOMAIN calls :
                          (IsRun(calls[j]) \/ IsFix(calls[j])) =>
                              i < j /\ calls[j].tests = calls[i].tests
          /\ \A j \in DOMAIN calls : IsRun(calls[j]) => Count(IsGenerateTests) = 1
          /\ Count(IsWriteTests) >= 1 => files[TestName] \in {unit_tests, Absent})
    /\ [][RepairFrame]_vars

\* the third Attempt is about to run, after two repairs that changed the code,
\* with the tests generated from the initial code still in the test file
C18_Witness ==
    /\ pc = "run_tests"
    /\ attempt = 2
    /\ Count(IsFixed) = 2
    /\ Count(IsRun) = 2
    /\ Count(IsGenerateTests) = 1
    /\ calls[1].code # generated_code
    /\ files[TestName] = unit_tests
    /\ \E i \in DOMAIN calls :
          IsGenerateTests(calls[i]) /\ calls[i].tests = unit_tests

\* C19: a file under the code name or the test name that the session has not
\* written is left as it is by every step, cleanup included: a file that was
\* there before the session and that the session never came to write is still
\* there, unchanged, when main has returned.
C19_CleanupSparesWhatWasNotWritten ==
    [][/\ (Count(IsWriteCode) = 0 /\ pc # "write_code") =>
              files'[CodeName] = files[CodeName]
       /\ (Count(IsWriteTests) = 0 /\ pc # "write_tests") =>
              files'[TestName] = files[TestName]]_vars

----------------------------------------------------------------------------
(* Properties of the clean-up of a response *)

\* C13: a response that wraps source text in an opening fence line (with or
\* without a language tag) and a closing fence is returned as exactly that
\* source text, trimmed; a response without fences is returned as it is,
\* trimmed.
C13_FencesStripped ==
    fpc = 1 =>
        /\ response.kind = "fenced" => cleaned = Trim(response.src)
        /\ response.kind = "plain" => cleaned = Trim(response.text)

\* C13 holds of the responses whose opening fence carries no tag or the tag
\* python, and of the responses without fences.
C13_StrippedForPythonOrNoTag ==
    (fpc = 1 /\ response.tag \in {<<>>, PYTHON}) =>
        /\ response.kind = "fenced" => cleaned = Trim(response.src)
        /\ response.kind = "plain" => cleaned = Trim(response.text)

----------------------------------------------------------------------------
(* Properties of slugify *)

SlugChars == LowerLetters \cup Digits \cup {"_"}

NotUnderscore(c) == c # "_"

\* C8, as claimed: slugify(slugify(x)) = slugify(x) for every x.
C8_Idempotent == spc = 2 => slug2 = slug1

\* C8, amended: slugify(slugify(x)) is slugify(x) with its underscores
\* removed; so the two are equal exactly when slugify(x) has no underscore.
C8_SecondPassDropsUnderscores ==
    spc = 2 =>
        /\ slug2 = SelectSeq(slug1, NotUnderscore)
        /\ slug2 = slug1 <=> "_" \notin Range(slug1)

C8_Witness ==
    /\ spc = 2
    /\ "_" \in Range(slug1)
    /\ slug2 # slug1
    /\ Len(slug2) < Len(slug1)

\* C9: for every input, the empty one and those of punctuation alone included,
\* slugify returns at most SLUG_LENGTH characters, each a lowercase letter, a
\* digit or an underscore.
C9_SlugShape ==
    /\ spc >= 1 => Len(slug1) <= SLUG_LENGTH /\ Range(slug1) \subseteq SlugChars
    /\ spc >= 2 => Len(slug2) <= SLUG_LENGTH /\ Range(slug2) \subseteq SlugChars

C9_Witness ==
    /\ spc >= 1
    /\ Len(text) > SLUG_LENGTH
    /\ Len(slug1) = SLUG_LENGTH
    /\ "-" \in Range(text)
    /\ "B" \in Range(text)

====
